---- MODULE Spec2Model ----
(***************************************************************************)
(* Study Assistant API (src/main.py, src/schemas.py).                      *)
(*                                                                         *)
(* The document store is a record of three collections ("deck", "card",    *)
(* "studysession"), each a sequence of documents in insertion order.       *)
(* Identifier strings are modelled as integers: a positive integer is a    *)
(* well-formed ObjectId string, EmptyStr is "" and MalformedId is a string *)
(* that bson.ObjectId rejects.  ease_factor is kept in hundredths (2.5 is  *)
(* 250); every quantity the handler adds to it is a whole number of        *)
(* hundredths.  The handler computes in binary floating point: run on the  *)
(* card inputs below, the Python code and this decimal arithmetic store    *)
(* the same ease (to 1e-8), repetitions and interval for every sequence of *)
(* up to four reviews; the first difference (a product that is a decimal   *)
(* tie but not a binary one) needs five.  Time is counted in days.  An     *)
(* Optional value is <<>> (None) or <<v>>.                                 *)
(*                                                                         *)
(* Handlers are plain `def` endpoints, which FastAPI runs on a thread      *)
(* pool, so review_card is split at its two store calls: find_one          *)
(* (ReviewFind) and update_one (ReviewUpdate).                             *)
(***************************************************************************)
EXTENDS Integers, Sequences, FiniteSets, TLC

VARIABLES db, now, req, reviews, resp

vars == <<db, now, req, reviews, resp>>

\* ---------------------------------------------------------------- bounds
MaxDecks == 2
MaxCards == 2
MaxSessions == 1
MaxTime == 1
MaxReviews == 2

\* --------------------------------------------------------------- inputs
Workers == {"w1", "w2"}

EmptyStr == 0
MalformedId == -1

\* generated ids are unique across collections: each collection issues its own
DeckIds == 101..(100 + MaxDecks)
CardIds == 201..(200 + MaxCards)
IdBase(coll) == IF coll = "deck" THEN 100 ELSE IF coll = "card" THEN 200 ELSE 300

None == <<>>
Some(v) == <<v>>

Qualities == {-1, 1, 3, 4, 6}

DeckInputs == [name : {"n"}, description : {None}]

\* scheduling fields a client may post with a card: the schema's defaults, a
\* card already at its third repetition, and values the schema does not exclude
SchedulingInputs ==
    { [ease_factor |-> 250, interval |-> 0, repetitions |-> 0],
      [ease_factor |-> 250, interval |-> 6, repetitions |-> 2],
      [ease_factor |-> 100, interval |-> -3, repetitions |-> 2] }

CardInputs ==
    { [deck_id |-> d, front |-> "Q", back |-> "A",
       ease_factor |-> s.ease_factor, interval |-> s.interval,
       repetitions |-> s.repetitions,
       next_review |-> None, last_reviewed |-> None] :
      d \in DeckIds \cup {MalformedId}, s \in SchedulingInputs }

\* start_session does not look its deck_id up
SessionInputs ==
    [deck_id : {101}, reviewed : {3}, correct : {2},
     started_at : {0}, finished_at : {None}]

\* POST /api/review bodies; the handler reads payload.card_id at find_one and
\* payload.quality only afterwards, so each is drawn where it is first read
ReviewIds == CardIds \cup {MalformedId}

\* ?deck_id= values: absent, the empty string, a deck id
CardQueries == {None, Some(EmptyStr)} \cup {Some(d) : d \in DeckIds}
SessionQueries == {None, Some(101)}

\* -------------------------------------------------------------- helpers
Max(a, b) == IF a >= b THEN a ELSE b
Min(a, b) == IF a <= b THEN a ELSE b

\* bson.ObjectId(s): accepts a well-formed id string, raises otherwise
ObjectIdValid(s) == s >= 1

\* the id the store generates for the next inserted document
NewId(coll) == IdBase(coll) + Len(db[coll]) + 1

\* database.create_document(collection_name, data): insert, return the id
create_document(coll, data) ==
    [db EXCEPT ![coll] = Append(@, [k \in DOMAIN data \cup {"_id"} |->
                                      IF k = "_id" THEN NewId(coll) ELSE data[k]])]

\* database.get_documents(collection_name, filter): the matching documents
get_documents(coll, q) ==
    SelectSeq(db[coll], LAMBDA d : \A k \in DOMAIN q : d[k] = q[k])

\* it["id"] = str(it.pop("_id"))
PopId(it) ==
    [k \in (DOMAIN it \ {"_id"}) \cup {"id"} |->
        IF k = "id" THEN it["_id"] ELSE it[k]]

MapSeq(s, Op(_)) == [i \in 1..Len(s) |-> Op(s[i])]

\* db[coll].count_documents({"_id": id})
count_documents(coll, id) ==
    Cardinality({i \in 1..Len(db[coll]) : db[coll][i]["_id"] = id})

\* db[coll].find_one({"_id": id}): <<doc>> or None
find_one(coll, id) ==
    LET hits == SelectSeq(db[coll], LAMBDA d : d["_id"] = id)
    IN  IF hits = <<>> THEN None ELSE Some(hits[1])

\* variant: the $set reaches every document of the collection
update_all(coll, id, fields) ==
    [db EXCEPT ![coll] =
        [i \in 1..Len(@) |->
            [k \in DOMAIN @[i] |-> IF k \in DOMAIN fields THEN fields[k] ELSE @[i][k]]]]

\* db[coll].update_one({"_id": id}, {"$set": fields}): first match only
update_one(coll, id, fields) ==
    LET first == CHOOSE i \in 1..Len(db[coll]) :
                    /\ db[coll][i]["_id"] = id
                    /\ \A j \in 1..(i - 1) : db[coll][j]["_id"] # id
    IN  IF count_documents(coll, id) = 0 THEN db
        ELSE [db EXCEPT ![coll][first] =
                [k \in DOMAIN @ |-> IF k \in DOMAIN fields THEN fields[k] ELSE @[k]]]

\* ------------------------------------------------------ review arithmetic
\* variant: only the lower clamp
ClampLowOnly(q) == Max(0, q)

\* max(0, min(5, payload.quality))
ClampQuality(q) == Max(0, Min(5, q))

\* 0.1 - (5 - quality) * (0.08 + (5 - quality) * 0.02), in hundredths
EaseDelta(quality) == 10 - (5 - quality) * (8 + (5 - quality) * 2)

\* ease = max(1.3, ease + delta)
NewEase(ease, quality) == Max(130, ease + EaseDelta(quality))

\* int(round(x)) for x = n100 / 100: Python rounds to nearest, ties to even
PyRound(n100) ==
    LET fl == n100 \div 100
        r  == n100 % 100
    IN  IF r < 50 THEN fl
        ELSE IF r > 50 THEN fl + 1
        ELSE IF fl % 2 = 0 THEN fl ELSE fl + 1

\* int(round(interval * ease)) or 1
GrowInterval(interval, ease) ==
    LET v == PyRound(interval * ease) IN IF v = 0 THEN 1 ELSE v

\* variant: the ease update also runs on a lapse
ScheduleEaseOnLapse(doc, q) ==
    LET quality == ClampQuality(q)
        reps == doc.repetitions
    IN  [ease_factor |-> NewEase(doc.ease_factor, quality),
         repetitions |-> IF quality < 3 THEN 0 ELSE reps + 1,
         interval |-> IF quality < 3 \/ reps = 0 THEN 1
                      ELSE IF reps = 1 THEN 6
                      ELSE GrowInterval(doc.interval, doc.ease_factor)]

\* variant: a lapse resets the interval but keeps the repetition count
ScheduleKeepReps(doc, q) ==
    LET quality == ClampQuality(q)
        reps == doc.repetitions
    IN  IF quality < 3
        THEN [ease_factor |-> doc.ease_factor, repetitions |-> reps, interval |-> 1]
        ELSE [ease_factor |-> NewEase(doc.ease_factor, quality),
              repetitions |-> reps + 1,
              interval |-> IF reps = 0 THEN 1
                           ELSE IF reps = 1 THEN 6
                           ELSE GrowInterval(doc.interval, doc.ease_factor)]

\* variant: the ease factor is updated before the interval is multiplied by it
ScheduleNewEaseFirst(doc, q) ==
    LET quality == ClampQuality(q)
        reps == doc.repetitions
    IN  IF quality < 3
        THEN [ease_factor |-> doc.ease_factor, repetitions |-> 0, interval |-> 1]
        ELSE [ease_factor |-> NewEase(doc.ease_factor, quality),
              repetitions |-> reps + 1,
              interval |-> IF reps = 0 THEN 1
                           ELSE IF reps = 1 THEN 6
                           ELSE GrowInterval(doc.interval,
                                             NewEase(doc.ease_factor, quality))]

\* lines 128-145 of review_card: the new ease_factor, repetitions, interval
Schedule(doc, q) ==
    LET quality == ClampQuality(q)
        ease == doc.ease_factor
        reps == doc.repetitions
        interval == doc.interval
    IN  IF quality < 3
        THEN [ease_factor |-> ease, repetitions |-> 0, interval |-> 1]
        ELSE [ease_factor |-> NewEase(ease, quality),
              repetitions |-> reps + 1,
              interval |-> IF reps = 0 THEN 1
                           ELSE IF reps = 1 THEN 6
                           ELSE GrowInterval(interval, ease)]

\* variant: a card becomes due only after its next_review has passed
IsDueStrict(it, t) == it.next_review = None \/ it.next_review[1] < t

\* if next_review is None or next_review <= now
IsDue(it, t) == it.next_review = None \/ it.next_review[1] <= t

Idle == [pc |-> "idle"]

\* ------------------------------------------------------------------ Init
Init ==
    /\ db = [deck |-> <<>>, card |-> <<>>, studysession |-> <<>>]
    /\ now = 0
    /\ req = [w \in Workers |-> Idle]
    /\ reviews = 0
    /\ resp = [op |-> "none", status |-> 0]

\* --------------------------------------------------------------- actions
\* POST /api/decks
create_deck(deck) ==
    /\ Len(db.deck) < MaxDecks
    /\ db' = create_document("deck", deck)
    /\ resp' = [op |-> "create_deck", status |-> 200, id |-> NewId("deck")]
    /\ UNCHANGED <<now, req, reviews>>

\* GET /api/decks
list_decks ==
    /\ resp' = [op |-> "list_decks", status |-> 200,
                items |-> MapSeq(get_documents("deck", <<>>), PopId)]
    /\ UNCHANGED <<db, now, req, reviews>>

\* POST /api/cards
create_card(card) ==
    /\ IF ~ObjectIdValid(card.deck_id)
       THEN /\ resp' = [op |-> "create_card", status |-> 500, deck_id |-> card.deck_id]
            /\ UNCHANGED db
       ELSE IF count_documents("deck", card.deck_id) = 0
       THEN /\ resp' = [op |-> "create_card", status |-> 404, deck_id |-> card.deck_id]
            /\ UNCHANGED db
       ELSE /\ Len(db.card) < MaxCards
            /\ db' = create_document("card", card)
            /\ resp' = [op |-> "create_card", status |-> 200, deck_id |-> card.deck_id,
                        id |-> NewId("card")]
    /\ UNCHANGED <<now, req, reviews>>

\* GET /api/cards?deck_id=&due_only=
list_cards(deck_id, due_only) ==
    LET q == IF deck_id # None /\ deck_id[1] # EmptyStr
             THEN [deck_id |-> deck_id[1]] ELSE <<>>
        items == MapSeq(get_documents("card", q), PopId)
        result == IF due_only
                  THEN SelectSeq(items, LAMBDA it : IsDue(it, now))
                  ELSE items
    IN  /\ resp' = [op |-> "list_cards", status |-> 200, deck_id |-> deck_id,
                    due_only |-> due_only, now |-> now, items |-> result]
        /\ UNCHANGED <<db, now, req, reviews>>

\* POST /api/sessions
start_session(session) ==
    /\ Len(db.studysession) < MaxSessions
    /\ db' = create_document("studysession", session)
    /\ resp' = [op |-> "start_session", status |-> 200, id |-> NewId("studysession")]
    /\ UNCHANGED <<now, req, reviews>>

\* GET /api/sessions?deck_id=
list_sessions(deck_id) ==
    LET q == IF deck_id # None /\ deck_id[1] # EmptyStr
             THEN [deck_id |-> deck_id[1]] ELSE <<>>
    IN  /\ resp' = [op |-> "list_sessions", status |-> 200, deck_id |-> deck_id,
                    items |-> MapSeq(get_documents("studysession", q), PopId)]
        /\ UNCHANGED <<db, now, req, reviews>>

\* POST /api/review, up to and including find_one (lines 124-126)
ReviewFind(w, card_id) ==
    /\ req[w].pc = "idle"
    /\ IF ~ObjectIdValid(card_id)
       THEN /\ resp' = [op |-> "review", status |-> 500, id |-> card_id]
            /\ UNCHANGED <<req, reviews>>
       ELSE IF find_one("card", card_id) = None
       THEN /\ resp' = [op |-> "review", status |-> 404, id |-> card_id]
            /\ UNCHANGED <<req, reviews>>
       ELSE /\ reviews < MaxReviews
            /\ reviews' = reviews + 1
            /\ req' = [req EXCEPT ![w] =
                        [pc |-> "found", card_id |-> card_id,
                         doc |-> find_one("card", card_id)[1]]]
            /\ UNCHANGED resp
    /\ UNCHANGED <<db, now>>

\* variant: the handler computes from the document as stored at the write
FoundDocFresh(w) == find_one("card", req[w].card_id)[1]

\* the document the handler computes from: the one find_one returned
FoundDoc(w) == req[w].doc

\* POST /api/review, lines 128-165: compute, update_one, return
ReviewUpdate(w, q) ==
    /\ req[w].pc = "found"
    /\ LET payload == [card_id |-> req[w].card_id, quality |-> q]
           new == Schedule(FoundDoc(w), payload.quality)
           next_review == now + new.interval
           fields == [ease_factor |-> new.ease_factor,
                      repetitions |-> new.repetitions,
                      interval |-> new.interval,
                      last_reviewed |-> Some(now),
                      next_review |-> Some(next_review)]
       IN  /\ db' = update_one("card", payload.card_id, fields)
           /\ resp' = [op |-> "review", status |-> 200, payload |-> payload,
                       before |-> req[w].doc,
                       stored |-> find_one("card", payload.card_id)[1],
                       id |-> payload.card_id,
                       ease_factor |-> new.ease_factor,
                       repetitions |-> new.repetitions,
                       interval |-> new.interval,
                       next_review |-> Some(next_review)]
    /\ req' = [req EXCEPT ![w] = Idle]
    /\ UNCHANGED <<now, reviews>>

\* the clock advances by a day
Tick ==
    /\ now < MaxTime
    /\ now' = now + 1
    /\ UNCHANGED <<db, req, reviews, resp>>

Next ==
    \/ \E deck \in DeckInputs : create_deck(deck)
    \/ list_decks
    \/ \E card \in CardInputs : create_card(card)
    \/ \E d \in CardQueries, due \in BOOLEAN : list_cards(d, due)
    \/ \E session \in SessionInputs : start_session(session)
    \/ \E d \in SessionQueries : list_sessions(d)
    \/ \E w \in Workers, card_id \in ReviewIds : ReviewFind(w, card_id)
    \/ \E w \in Workers, q \in Qualities : ReviewUpdate(w, q)
    \/ Tick

Spec == Init /\ [][Next]_vars

\* ================================================================ claims
\* the last response is that of a review that succeeded
Reviewed == resp.op = "review" /\ resp.status = 200

\* the stored card with the given id
CardOf(id) == find_one("card", id)[1]

\* the quality score a review counts, after clamping to 0..5
Counted(q) == IF q < 0 THEN 0 ELSE IF q > 5 THEN 5 ELSE q

\* the ease change of SM-2 in hundredths, tabulated per quality
Sm2Delta(q) ==
    CASE q = 5 -> 10 [] q = 4 -> 0 [] q = 3 -> -14
      [] q = 2 -> -32 [] q = 1 -> -54 [] q = 0 -> -80

\* n is x rounded to the nearest integer, ties to the even one (x = n100/100)
IsRounded(n, n100) ==
    /\ 100 * n - 50 <= n100
    /\ n100 <= 100 * n + 50
    /\ (n100 = 100 * n - 50 \/ n100 = 100 * n + 50) => n % 2 = 0

\* C1 as stated: after every successful review_card call, lapse or not, the
\* card's ease_factor is max(1.3, old ease_factor + delta(quality)).
C1_EaseUpdatedInAllCases ==
    Reviewed =>
        CardOf(resp.id).ease_factor =
            Max(130, resp.before.ease_factor + Sm2Delta(Counted(resp.payload.quality)))

\* C1 amended: a review with clamped quality >= 3 stores
\* max(1.3, old ease_factor + delta(quality)); a review with clamped quality < 3
\* (a lapse) stores the ease_factor it read, unchanged.
C1_EaseUpdatedOnSuccessOnly ==
    Reviewed =>
        LET q == Counted(resp.payload.quality)
            old == resp.before.ease_factor
        IN  /\ q >= 3 => CardOf(resp.id).ease_factor = Max(130, old + Sm2Delta(q))
            /\ q < 3 => CardOf(resp.id).ease_factor = old

\* a lapse on a card at the default ease 2.5 left the ease at 2.5
C1_Witness ==
    /\ Reviewed
    /\ Counted(resp.payload.quality) < 3
    /\ resp.before.ease_factor = 250
    /\ CardOf(resp.id).ease_factor = 250

\* C2: every stored card has ease_factor >= 1.3 in every reachable state.
C2_EaseFloor ==
    \A i \in 1..Len(db.card) : db.card[i].ease_factor >= 130

\* C3: after any review_card call that succeeds, the reviewed card's stored
\* interval is a positive integer.
C3_IntervalPositive ==
    Reviewed => CardOf(resp.id).interval >= 1

\* C4: a review whose clamped quality is < 3 leaves the card with
\* repetitions = 0 and interval = 1, whatever the card's prior state.
C4_LapseResets ==
    (Reviewed /\ Counted(resp.payload.quality) < 3) =>
        /\ CardOf(resp.id).repetitions = 0
        /\ CardOf(resp.id).interval = 1
        /\ resp.repetitions = 0
        /\ resp.interval = 1

\* a lapse on a card that had two repetitions and a six-day interval
C4_Witness ==
    /\ Reviewed
    /\ Counted(resp.payload.quality) < 3
    /\ resp.before.repetitions = 2
    /\ resp.before.interval = 6
    /\ CardOf(resp.id).repetitions = 0

\* C5: a successful review (clamped quality >= 3) of a card read with
\* repetitions 0 gives interval 1 and repetitions 1; read with repetitions 1 it
\* gives interval 6 and repetitions 2; read with repetitions >= 2 (and, as in any
\* chain of successes begun at repetitions 0, interval >= 1 and ease >= 1.3) it
\* gives the previous interval times the ease factor read, rounded, and
\* repetitions + 1.  From repetitions 2, interval 6, ease 2.5 a quality-4 review
\* gives interval 15 and repetitions 3.
C5_BootstrapCurve ==
    (Reviewed /\ Counted(resp.payload.quality) >= 3) =>
        LET b == resp.before
            c == CardOf(resp.id)
        IN  /\ c.repetitions = b.repetitions + 1
            /\ b.repetitions = 0 => c.interval = 1
            /\ b.repetitions = 1 => c.interval = 6
            /\ (b.repetitions >= 2 /\ b.interval >= 1 /\ b.ease_factor >= 130) =>
                    /\ IsRounded(c.interval, b.interval * b.ease_factor)
                    /\ c.interval >= 1
            /\ b.repetitions \in {0, 1} => c.ease_factor >= 130
            /\ (b.repetitions = 2 /\ b.interval = 6 /\ b.ease_factor = 250
                  /\ resp.payload.quality = 4) =>
                    (c.interval = 15 /\ c.repetitions = 3)

\* the third success in a row: six days at ease 2.5 became fifteen
C5_Witness ==
    /\ Reviewed
    /\ resp.payload.quality >= 3
    /\ resp.before.repetitions = 2
    /\ resp.before.interval = 6
    /\ resp.before.ease_factor = 250
    /\ CardOf(resp.id).interval = 15
    /\ CardOf(resp.id).repetitions = 3

\* C6: a review with quality > 5 stores and returns what a review of the same
\* card state with quality 5 would, and one with quality < 0 what quality 0 would.
C6_QualityClamped ==
    Reviewed =>
        LET c == CardOf(resp.id)
            got == [ease_factor |-> c.ease_factor, repetitions |-> c.repetitions,
                    interval |-> c.interval]
        IN  /\ resp.payload.quality > 5 => got = Schedule(resp.before, 5)
            /\ resp.payload.quality < 0 => got = Schedule(resp.before, 0)

\* a quality-6 review of a fresh card raised the ease by 0.1, as quality 5 does
C6_Witness ==
    /\ Reviewed
    /\ resp.payload.quality > 5
    /\ resp.before.ease_factor = 250
    /\ CardOf(resp.id).ease_factor = 260

\* C7: create_card with a deck_id matching no deck answers 404 and inserts
\* nothing; review_card with a card_id matching no card answers 404 and updates
\* nothing; create_card with an existing deck_id inserts exactly one card.
C7_NotFoundLeavesStore ==
    [][ /\ \A card \in CardInputs :
            create_card(card) =>
                IF count_documents("deck", card.deck_id) = 0
                THEN resp'.status = 404 /\ db' = db
                ELSE /\ Len(db'.card) = Len(db.card) + 1
                     /\ db'.deck = db.deck
                     /\ db'.studysession = db.studysession
        /\ \A w \in Workers, card_id \in ReviewIds :
            (ReviewFind(w, card_id) /\ count_documents("card", card_id) = 0) =>
                (resp'.status = 404 /\ db' = db)
      ]_vars

\* C8: list_cards returns, in store order and once each, exactly the cards of
\* the requested deck (all cards when no deck is requested) that, under
\* due_only, have no next_review or one <= the time of the call.
C8_DueFiltering ==
    resp.op = "list_cards" =>
        LET asked == resp.deck_id # None /\ resp.deck_id # Some(EmptyStr)
            Wanted(c) ==
                /\ asked => c.deck_id = resp.deck_id[1]
                /\ resp.due_only =>
                      (c.next_review = None \/ c.next_review[1] <= resp.now)
            want == {i \in 1..Len(db.card) : Wanted(db.card[i])}
            ids == {resp.items[j].id : j \in 1..Len(resp.items)}
        IN  /\ ids = {db.card[i]["_id"] : i \in want}
            /\ Len(resp.items) = Cardinality(want)
            /\ \A j \in 1..Len(resp.items) :
                  \E i \in want : resp.items[j] = PopId(db.card[i])

\* a due_only listing that kept a card due exactly now and dropped a card
\* whose next_review lies in the future
C8_Witness ==
    /\ resp.op = "list_cards"
    /\ resp.due_only
    /\ \E j \in 1..Len(resp.items) : resp.items[j].next_review = Some(resp.now)
    /\ \E i \in 1..Len(db.card) :
          /\ db.card[i].next_review # None
          /\ db.card[i].next_review[1] > resp.now
          /\ \A j \in 1..Len(resp.items) : resp.items[j].id # db.card[i]["_id"]

\* C9: the later write wins: what a review stores is computed from the
\* document it read, also when another review has rewritten the card since.
C9_LaterWriteWins ==
    Reviewed =>
        LET c == CardOf(resp.id)
            q == Counted(resp.payload.quality)
        IN  /\ c.repetitions = IF q < 3 THEN 0 ELSE resp.before.repetitions + 1
            /\ q >= 3 => c.ease_factor =
                            Max(130, resp.before.ease_factor + Sm2Delta(q))

\* a lost update: the review read the card at repetitions 0, another successful
\* review had meanwhile stored repetitions 1, and after this second successful
\* review the card still shows one repetition
C9_Witness ==
    /\ Reviewed
    /\ Counted(resp.payload.quality) >= 3
    /\ resp.before.repetitions = 0
    /\ resp.stored.repetitions = 1
    /\ CardOf(resp.id).repetitions = 1

\* C10: a successful review rewrites only ease_factor, repetitions, interval,
\* last_reviewed and next_review of the reviewed card; its other fields, every
\* other card, every deck and every study session stay as they were; the
\* values returned are the values stored.
C10_ReviewFrame ==
    [][ \A w \in Workers :
          (req[w].pc = "found" /\ req'[w].pc = "idle") =>
            LET id == req[w].card_id IN
            /\ db'.deck = db.deck
            /\ db'.studysession = db.studysession
            /\ Len(db'.card) = Len(db.card)
            /\ \A i \in 1..Len(db.card) :
                  IF db.card[i]["_id"] # id
                  THEN db'.card[i] = db.card[i]
                  ELSE /\ DOMAIN db'.card[i] = DOMAIN db.card[i]
                       /\ \A k \in DOMAIN db.card[i] \
                              {"ease_factor", "repetitions", "interval",
                               "last_reviewed", "next_review"} :
                              db'.card[i][k] = db.card[i][k]
                       /\ db'.card[i].ease_factor = resp'.ease_factor
                       /\ db'.card[i].repetitions = resp'.repetitions
                       /\ db'.card[i].interval = resp'.interval
                       /\ db'.card[i].next_review = resp'.next_review
                       /\ db'.card[i].last_reviewed = Some(now)
            /\ resp'.status = 200
            /\ resp'.id = id
      ]_vars

\* a review of one card completed while another card, a deck and a study
\* session were in the store
C10_Witness ==
    /\ Reviewed
    /\ Len(db.card) = 2
    /\ Len(db.studysession) = 1
    /\ CardOf(resp.id).last_reviewed # None
    /\ \E i \in 1..Len(db.card) :
          db.card[i]["_id"] # resp.id /\ db.card[i].last_reviewed = None

====
